---- MODULE Spec2Model ----
(***************************************************************************)
(* Model of the resilient HTTP client of kuma-mieru (customFetch and its   *)
(* recursive worker makeRequest).  One behaviour of the model is one       *)
(* customFetch(url, options) call: its chain of attempts, the events the   *)
(* runtime delivers to each attempt (response end, transport error,        *)
(* socket timeout), the backoff sleeps and the promises that carry the     *)
(* result back to the caller.                                              *)
(***************************************************************************)
EXTENDS Integers, Sequences, FiniteSets, Bags, TLC

\* ------------------------------------------------------------------ bounds

\* Largest maxRetries / maxRedirects a caller passes in the model.
MaxRetriesBound == 2
MaxRedirectsBound == 2
\* How many timed-out requests may see the runtime's own 'error' event
\* ('socket hang up') after req.destroy(), per call.
MaxHangUps == 1
\* How many requests of one call the model dispatches.
MaxAttempts == 5

\* ------------------------------------------------------- header names

\* String.prototype.toLowerCase on the header names the model uses.
LowerCase(name) ==
  CASE name = "User-Agent" -> "user-agent"
    [] name = "Accept" -> "accept"
    [] name = "Accept-Encoding" -> "accept-encoding"
    [] name = "Connection" -> "connection"
    [] name = "CF-Access-Client-Id" -> "cf-access-client-id"
    [] name = "CF-Access-Client-Secret" -> "cf-access-client-secret"
    [] name = "Content-Type" -> "content-type"
    [] name = "CONTENT-LENGTH" -> "content-length"
    [] name = "X-Custom" -> "x-custom"
    [] name = "x-CUSTOM" -> "x-custom"
    [] name = "Cf-Access-Client-ID" -> "cf-access-client-id"
    [] OTHER -> name

\* key.toLowerCase().startsWith("cf-access-")
IsVendorHeader(name) ==
  LowerCase(name) \in {"cf-access-client-id", "cf-access-client-secret"}

\* A header object is a sequence of <<name, value>> entries in insertion
\* order, without repeated names.
HeaderNames(entries) == {entries[i][1] : i \in 1..Len(entries)}

HeaderValue(entries, name) ==
  LET i == CHOOSE j \in 1..Len(entries) : entries[j][1] = name
  IN  entries[i][2]

\* obj[key] = value on a header object: replaces in place or appends.
SetHeader(entries, name, value) ==
  IF name \in HeaderNames(entries)
  THEN [i \in 1..Len(entries) |->
          IF entries[i][1] = name THEN <<name, value>> ELSE entries[i]]
  ELSE Append(entries, <<name, value>>)

\* getCloudflareAccessHeaders(): the two vendor headers when the
\* credentials are configured (non-empty after trimming).
getCloudflareAccessHeaders(configured) ==
  IF configured
  THEN << <<"CF-Access-Client-Id", "id">>, <<"CF-Access-Client-Secret", "secret">> >>
  ELSE << >>

\* customFetchOptions.headers
DefaultHeaders(configured) ==
  << <<"User-Agent", "Kuma-Mieru">>, <<"Accept", "text/html,application/json,*/*">>,
     <<"Accept-Encoding", "">>, <<"Connection", "keep-alive">> >>
  \o getCloudflareAccessHeaders(configured)

\* An options.headers value: the key may be absent from the options object.
NoHeaders == [present |-> FALSE, entries |-> << >>]
Headers(entries) == [present |-> TRUE, entries |-> entries]

\* mergedOptions = {...customFetchOptions, ...fetchOptions}: the caller's
\* headers object, when the key is there, replaces the default one whole.
MergedHeaders(options, configured) ==
  IF options.headers.present
  THEN options.headers.entries
  ELSE DefaultHeaders(configured)

\* Faulty variant: every header name is lower-cased.
RECURSIVE NormalizeFrom_LowerAll(_, _)
NormalizeFrom_LowerAll(entries, acc) ==
  IF entries = << >> THEN acc
  ELSE NormalizeFrom_LowerAll(Tail(entries),
         SetHeader(acc, LowerCase(Head(entries)[1]), Head(entries)[2]))

\* The loop that builds the transmitted header object.
RECURSIVE NormalizeFrom(_, _)
NormalizeFrom(entries, acc) ==
  IF entries = << >> THEN acc
  ELSE LET key == Head(entries)[1]
           value == Head(entries)[2]
       IN  NormalizeFrom(Tail(entries),
             IF IsVendorHeader(key)
             THEN SetHeader(acc, key, value)
             ELSE SetHeader(acc, LowerCase(key), value))

NormalizeHeaders(entries) == NormalizeFrom(entries, << >>)

\* What one attempt puts on the wire.
SentMethod(options) == IF options.method = "" THEN "GET" ELSE options.method
SentBody(options) == options.body
SentHeaders(options, configured) ==
  NormalizeHeaders(MergedHeaders(options, configured))

\* Faulty variant: the 303 filter compares the header name as written.
RECURSIVE RedirectHeadersFrom_CaseSensitive(_, _)
RedirectHeadersFrom_CaseSensitive(entries, acc) ==
  IF entries = << >> THEN acc
  ELSE LET key == Head(entries)[1]
       IN  RedirectHeadersFrom_CaseSensitive(Tail(entries),
             IF key # "content-type" /\ key # "content-length"
             THEN SetHeader(acc, key, Head(entries)[2])
             ELSE acc)

\* The headers of the options object handed on after a 303.
RECURSIVE RedirectHeadersFrom(_, _)
RedirectHeadersFrom(entries, acc) ==
  IF entries = << >> THEN acc
  ELSE LET key == Head(entries)[1]
           lowerKey == LowerCase(key)
       IN  RedirectHeadersFrom(Tail(entries),
             IF lowerKey # "content-type" /\ lowerKey # "content-length"
             THEN SetHeader(acc, key, Head(entries)[2])
             ELSE acc)

\* redirectOptions of a followed redirect with the given status.
RedirectOptions(options, status) ==
  IF status = 303
  THEN [options EXCEPT
          !.method = "GET",
          !.body = "",
          !.headers = Headers(IF options.headers.present
                              THEN RedirectHeadersFrom(options.headers.entries, << >>)
                              ELSE << >>)]
  ELSE options

\* ------------------------------------------------------------ inputs

\* Values of the environment and of the caller's arguments.
TargetUrls == {"http://a/", "http://["}
\* Faulty variant: every URL is taken as well-formed.
IsValidUrl_Lenient(url) == TRUE

\* new URL(url) throws on a malformed URL.
IsValidUrl(url) == url # "http://["
\* new URL(location, url).toString() for the absolute locations of the model.
ResolveUrl(location, url) == location

\* The request of a call: a plain GET without options of its own, or a POST
\* with a body and headers.
CallerRequests ==
  { [method |-> "", body |-> "", headers |-> NoHeaders],
    [method |-> "POST", body |-> "payload",
     headers |-> Headers(<< <<"Content-Type", "application/json">>,
                            <<"X-Custom", "1">>,
                            <<"CF-Access-Client-Id", "caller-id">>,
                            <<"CONTENT-LENGTH", "7">> >>)] }
RetryDelays == {100, 500}

\* The options object of a call, with the policy defaults already applied.
CallerOptions ==
  {[method |-> rq.method, body |-> rq.body, headers |-> rq.headers,
    maxRetries |-> mr, retryDelay |-> rd,
    followRedirects |-> fr, maxRedirects |-> md] :
      rq \in CallerRequests,
      mr \in 0..MaxRetriesBound, rd \in RetryDelays,
      fr \in BOOLEAN, md \in 0..MaxRedirectsBound}

\* What the runtime can deliver to a dispatched request.
\* A response is its status (0: no status code) and its Location header.
Statuses == {0, 199, 200, 299, 300, 301, 302, 303, 304, 307, 308, 404}
Locations == {"", "http://b/", "http://["}
Responses ==
  {[status |-> s, hasLocation |-> FALSE, location |-> ""] : s \in Statuses}
  \cup {[status |-> s, hasLocation |-> TRUE, location |-> "http://b/"] :
          s \in {200, 301, 302, 303, 304, 307, 308}}
  \cup {[status |-> s, hasLocation |-> TRUE, location |-> l] :
          s \in {302, 303}, l \in Locations}
\* error.code of a transport error; "" is an error without a code.
ErrorCodes ==
  {"ECONNRESET", "ETIMEDOUT", "ECONNREFUSED", "EHOSTUNREACH", "ENOTFOUND", ""}

\* ------------------------------------------------------------- state

VARIABLES
  cfAccess,   \* the vendor credentials are configured in the environment
  live,       \* bag of what the call still has running: dispatched requests
              \* ("open"), error handlers in their backoff sleep ("sleep") and
              \* destroyed requests whose socket has yet to close ("hangup")
  result,     \* the promise customFetch returned
  attempts,   \* requests dispatched so far
  seen,       \* what has happened to the call so far, counted by kind
  last,       \* the event handled by the latest step
  \* the insecure-TLS warning of the process
  allowInsecureTls,            \* ALLOW_INSECURE_TLS is "true"
  hasShownInsecureTlsWarning,  \* the module-level latch
  warnings,                    \* console.warn calls of the latch so far
  calls,                       \* the customFetch calls of the process
  \* the header object of one request
  fetchOptions,  \* the caller's headers option
  headers,       \* the header object handed to protocol.request
  \* the body of one response
  chunks,        \* the data events of the response
  responseBody,  \* the bytes the response object retains
  accessed,      \* what the accessor calls so far returned
  \* the request policy of the process
  env,            \* the three REQUEST_* environment variables
  requestPolicy,  \* the outcome of requestPolicySchema.parse
  retryOptions,   \* maxRetries, retryDelay and timeout of a request
  \* the config generator
  pageEndpoints,      \* the configured pages, in order
  overrides,          \* the KUMA_MIERU_TITLE, _DESCRIPTION and _ICON overrides
  pageConfigEntries,  \* the entries pushed so far
  generated           \* how generateConfig ended

callVars == <<cfAccess, live, result, attempts, seen, last>>
latchVars == <<allowInsecureTls, hasShownInsecureTlsWarning, warnings, calls>>
headerVars == <<fetchOptions, headers>>
bodyVars == <<chunks, responseBody, accessed>>
policyVars == <<env, requestPolicy, retryOptions>>
configVars == <<pageEndpoints, overrides, pageConfigEntries, generated>>
vars == <<callVars, latchVars, headerVars, bodyVars, policyVars, configVars>>

\* Each specification below follows one part of the module and leaves the
\* state of the other parts at rest.
LatchIdle ==
  /\ allowInsecureTls = FALSE /\ hasShownInsecureTlsWarning = FALSE
  /\ warnings = 0 /\ calls = << >>
HeaderIdle == fetchOptions = << >> /\ headers = << >>
BodyIdle == chunks = << >> /\ responseBody = << >> /\ accessed = << >>
PolicyIdle == env = << >> /\ requestPolicy = << >> /\ retryOptions = << >>
ConfigIdle ==
  /\ pageEndpoints = << >> /\ overrides = << >>
  /\ pageConfigEntries = << >> /\ generated = ""

\* One makeRequest invocation: its arguments, and ms, the backoff it sleeps.
Request(kind, url, options, retryCount, redirectCount, ms) ==
  [kind |-> kind, url |-> url, options |-> options,
   retryCount |-> retryCount, redirectCount |-> redirectCount, ms |-> ms]
NoRequest == Request("none", "", [method |-> "", body |-> "", headers |-> NoHeaders,
                                  maxRetries |-> 0, retryDelay |-> 0,
                                  followRedirects |-> FALSE, maxRedirects |-> 0],
                     0, 0, 0)

\* seen: timedOut says that some request of the call timed out, hangUps
\* counts the timeouts that destroyed a request still without a response,
\* only302 says that every event so far was a response with status 302 and a
\* Location naming a valid URL, followed303 that a 303 redirect was followed.
NothingSeen ==
  [timedOut |-> FALSE, hangUps |-> 0, only302 |-> TRUE, followed303 |-> FALSE]

Add(bag, e) == bag (+) SetToBag({e})
Remove(bag, e) == bag (-) SetToBag({e})
LiveOf(kind) == {e \in BagToSet(live) : e.kind = kind}
\* The dispatched requests that have not ended, as a bag, and their number.
OpenBag == [e \in LiveOf("open") |-> live[e]]
SleepBag == [e \in LiveOf("sleep") |-> live[e]]
InFlight == BagCardinality(OpenBag)

\* The record of an event: its kind, the request it came to, what it
\* carried, and the request dispatched in the same step, if any.
NoResponse == [status |-> 0, hasLocation |-> FALSE, location |-> ""]
Event(kind, req, res, code, next) ==
  [kind |-> kind, req |-> req, status |-> res.status,
   hasLocation |-> res.hasLocation, location |-> res.location,
   code |-> code, next |-> next]

\* CustomResponse built from a response (ok and status), and the promise
\* states.  by is the request whose handler settled the promise.
\* Faulty variant: every status from 200 below 400 counts as ok.
ResponseOk_Below400(status) == status # 0 /\ status >= 200 /\ status < 400

ResponseOk(status) == status # 0 /\ status >= 200 /\ status < 300
Pending ==
  [state |-> "pending", status |-> 0, ok |-> FALSE, code |-> "", by |-> NoRequest]
Resolved(status, req) ==
  [state |-> "resolved", status |-> status, ok |-> ResponseOk(status),
   code |-> "", by |-> req]
Rejected(code, req) ==
  [state |-> "rejected", status |-> 0, ok |-> FALSE, code |-> code, by |-> req]

\* The promises of a call form a chain: every handler that dispatches a
\* successor awaits it and hands its outcome to its own resolve or reject, up
\* to the promise customFetch returned.  The model follows a call until that
\* promise settles.
Running == result.state = "pending"

Init ==
  /\ cfAccess \in BOOLEAN
  /\ \E url \in TargetUrls, options \in CallerOptions :
       LET req == Request("open", url, options, 0, 0, 0)
       IN  /\ live = IF IsValidUrl(url) THEN SetToBag({req}) ELSE EmptyBag
           /\ result = IF IsValidUrl(url) THEN Pending
                       ELSE Rejected("ERR_INVALID_URL", req)
           /\ attempts = IF IsValidUrl(url) THEN 1 ELSE 0
           /\ last = Event("call", req, NoResponse, "", NoRequest)
  /\ seen = NothingSeen
  /\ LatchIdle /\ HeaderIdle /\ BodyIdle /\ PolicyIdle /\ ConfigIdle

\* ------------------------------------------------------ response end

RedirectStatuses == {301, 302, 303, 307, 308}

\* Faulty variant: the redirect budget is compared with <=.
FollowsRedirect_Inclusive(req, res) ==
  /\ req.options.followRedirects
  /\ res.status \in RedirectStatuses
  /\ res.hasLocation /\ res.location # ""
  /\ req.redirectCount <= req.options.maxRedirects

\* Faulty variant: 307 is missing from the list of redirect statuses.
FollowsRedirect_No307(req, res) ==
  /\ req.options.followRedirects
  /\ res.status \in RedirectStatuses \ {307}
  /\ res.hasLocation /\ res.location # ""
  /\ req.redirectCount < req.options.maxRedirects

\* The guard of the redirect branch of res.on("end").
FollowsRedirect(req, res) ==
  /\ req.options.followRedirects
  /\ res.status \in RedirectStatuses
  /\ res.hasLocation /\ res.location # ""
  /\ req.redirectCount < req.options.maxRedirects

\* Faulty variant: a followed redirect starts the retry count again.
RedirectRequest_ResetsRetries(req, res) ==
  Request("open", ResolveUrl(res.location, req.url),
          RedirectOptions(req.options, res.status),
          0, req.redirectCount + 1, 0)

\* The makeRequest call of the redirect branch.
RedirectRequest(req, res) ==
  Request("open", ResolveUrl(res.location, req.url),
          RedirectOptions(req.options, res.status),
          req.retryCount, req.redirectCount + 1, 0)

\* Faulty variant: a response with an error status is retried after a backoff.
EndHandler_RetryOnStatus(rest, req, res) ==
  IF FollowsRedirect(req, res)
  THEN IF IsValidUrl(res.location)
       THEN /\ attempts < MaxAttempts
            /\ live' = Add(rest, RedirectRequest(req, res))
            /\ attempts' = attempts + 1
            /\ UNCHANGED result
       ELSE /\ live' = rest
            /\ result' = Rejected("ERR_INVALID_URL", req)
            /\ UNCHANGED attempts
  ELSE IF res.status >= 400 /\ req.retryCount < req.options.maxRetries
       THEN /\ live' = Add(rest, [req EXCEPT !.kind = "sleep",
                                             !.ms = req.options.retryDelay])
            /\ UNCHANGED <<result, attempts>>
       ELSE /\ live' = rest
            /\ result' = Resolved(res.status, req)
            /\ UNCHANGED attempts

\* Faulty variant: a redirect that the budget does not allow rejects the call.
EndHandler_RejectAtLimit(rest, req, res) ==
  IF FollowsRedirect(req, res)
  THEN IF IsValidUrl(res.location)
       THEN /\ attempts < MaxAttempts
            /\ live' = Add(rest, RedirectRequest(req, res))
            /\ attempts' = attempts + 1
            /\ UNCHANGED result
       ELSE /\ live' = rest
            /\ result' = Rejected("ERR_INVALID_URL", req)
            /\ UNCHANGED attempts
  ELSE /\ live' = rest
       /\ result' = IF /\ req.options.followRedirects
                       /\ res.status \in RedirectStatuses
                       /\ req.redirectCount >= req.options.maxRedirects
                    THEN Rejected("ERR_TOO_MANY_REDIRECTS", req)
                    ELSE Resolved(res.status, req)
       /\ UNCHANGED attempts

\* res.on("end") on the bag without the request: the redirect is followed,
\* its Location does not parse, or the response is the result.
EndHandler(rest, req, res) ==
  IF FollowsRedirect(req, res)
  THEN IF IsValidUrl(res.location)
       THEN /\ attempts < MaxAttempts
            /\ live' = Add(rest, RedirectRequest(req, res))
            /\ attempts' = attempts + 1
            /\ UNCHANGED result
       ELSE /\ live' = rest
            /\ result' = Rejected("ERR_INVALID_URL", req)
            /\ UNCHANGED attempts
  ELSE /\ live' = rest
       /\ result' = Resolved(res.status, req)
       /\ UNCHANGED attempts

Is302(res) == res.status = 302 /\ res.hasLocation /\ res.location = "http://b/"

OnResponseEnd(req, res) ==
  /\ Running
  /\ req \in LiveOf("open")
  /\ EndHandler(Remove(live, req), req, res)
  /\ last' = Event("response", req, res, "",
                   IF attempts' > attempts THEN RedirectRequest(req, res)
                   ELSE NoRequest)
  /\ seen' = [seen EXCEPT !.only302 = @ /\ Is302(res),
                           !.followed303 =
                             @ \/ (res.status = 303 /\ attempts' > attempts)]
  /\ UNCHANGED <<cfAccess, latchVars, headerVars, bodyVars, policyVars, configVars>>

\* ----------------------------------------------------- error handling

RetryableCodes == {"ECONNRESET", "ETIMEDOUT", "ECONNREFUSED", "EHOSTUNREACH"}

\* Faulty variants: the retry budget is one short, is compared with <=, and the
\* error code is not looked at.
shouldRetry_OffByOne(req, code) ==
  req.retryCount < req.options.maxRetries - 1 /\ code \in RetryableCodes
shouldRetry_Inclusive(req, code) ==
  req.retryCount <= req.options.maxRetries /\ code \in RetryableCodes
shouldRetry_AnyCode(req, code) ==
  req.retryCount < req.options.maxRetries

shouldRetry(req, code) ==
  req.retryCount < req.options.maxRetries /\ code \in RetryableCodes

\* Faulty variant: every backoff is retryDelay long.
BackoffDelay_Fixed(req) == req.options.retryDelay

\* The argument of sleep() before a retry.
BackoffDelay(req) == req.options.retryDelay * (req.retryCount + 1)

\* The handler asleep before its retry.
Sleeper(req) == [req EXCEPT !.kind = "sleep", !.ms = BackoffDelay(req)]

\* req.on("error") up to its first await, on the bag without the request.
ErrorHandler(rest, req, code) ==
  IF shouldRetry(req, code)
  THEN /\ live' = Add(rest, Sleeper(req))
       /\ UNCHANGED result
  ELSE /\ live' = rest
       /\ result' = Rejected(code, req)

\* A transport error event on a dispatched request.
OnError(req, code) ==
  /\ Running
  /\ req \in LiveOf("open")
  /\ ErrorHandler(Remove(live, req), req, code)
  /\ last' = Event("error", req, NoResponse, code, NoRequest)
  /\ seen' = [seen EXCEPT !.only302 = FALSE]
  /\ UNCHANGED <<cfAccess, attempts, latchVars, headerVars, bodyVars, policyVars, configVars>>

\* Faulty variant: the timeout handler destroys the request and emits nothing.
OnTimeout_DestroyOnly(req, hangUp) ==
  /\ Running
  /\ req \in LiveOf("open")
  /\ hangUp => seen.hangUps < MaxHangUps
  /\ live' = IF hangUp
             THEN Add(Remove(live, req), [req EXCEPT !.kind = "hangup"])
             ELSE Remove(live, req)
  /\ seen' = [seen EXCEPT !.timedOut = TRUE,
                           !.hangUps = IF hangUp THEN @ + 1 ELSE @,
                           !.only302 = FALSE]
  /\ last' = Event("timeout", req, NoResponse, "ETIMEDOUT", NoRequest)
  /\ UNCHANGED <<cfAccess, result, attempts, latchVars, headerVars, bodyVars, policyVars, configVars>>

\* req.on("timeout"): req.destroy(), then the synthesized ETIMEDOUT error is
\* emitted to the error handler.  A request destroyed without an error
\* before its response arrived gets an 'error' event of its own from the
\* runtime when its socket closes ("socket hang up", ECONNRESET); one
\* destroyed while the response body is read does not.  hangUp says which.
OnTimeout(req, hangUp) ==
  /\ Running
  /\ req \in LiveOf("open")
  /\ hangUp => seen.hangUps < MaxHangUps
  /\ ErrorHandler(IF hangUp
                  THEN Add(Remove(live, req), [req EXCEPT !.kind = "hangup"])
                  ELSE Remove(live, req),
                  req, "ETIMEDOUT")
  /\ seen' = [seen EXCEPT !.timedOut = TRUE,
                           !.hangUps = IF hangUp THEN @ + 1 ELSE @,
                           !.only302 = FALSE]
  /\ last' = Event("timeout", req, NoResponse, "ETIMEDOUT", NoRequest)
  /\ UNCHANGED <<cfAccess, attempts, latchVars, headerVars, bodyVars, policyVars, configVars>>

\* The runtime's 'error' event of a request that was destroyed on timeout.
OnSocketHangUp(h) ==
  /\ Running
  /\ h \in LiveOf("hangup")
  /\ ErrorHandler(Remove(live, h), [h EXCEPT !.kind = "open"], "ECONNRESET")
  /\ last' = Event("hangup", [h EXCEPT !.kind = "open"], NoResponse, "ECONNRESET",
                   NoRequest)
  /\ UNCHANGED <<cfAccess, attempts, seen, latchVars, headerVars, bodyVars, policyVars, configVars>>

\* Faulty variant: a retry starts the redirect count again.
RetryRequest_ResetsRedirects(s) ==
  Request("open", s.url, s.options, s.retryCount + 1, 0, 0)

\* The makeRequest call of the retry branch.
RetryRequest(s) ==
  Request("open", s.url, s.options, s.retryCount + 1, s.redirectCount, 0)

\* A backoff timer fires and the error handler goes on: the retry is
\* dispatched.  The socket of a destroyed request closes before the backoff
\* that its timeout started is over.
OnSleepDone(s) ==
  /\ Running
  /\ s \in LiveOf("sleep")
  /\ [s EXCEPT !.kind = "hangup", !.ms = 0] \notin LiveOf("hangup")
  /\ attempts < MaxAttempts
  /\ live' = Add(Remove(live, s), RetryRequest(s))
  /\ attempts' = attempts + 1
  /\ last' = Event("sleep", s, NoResponse, "", RetryRequest(s))
  /\ UNCHANGED <<cfAccess, result, seen, latchVars, headerVars, bodyVars, policyVars, configVars>>

Next ==
  \/ \E req \in LiveOf("open"), res \in Responses : OnResponseEnd(req, res)
  \/ \E req \in LiveOf("open"), code \in ErrorCodes : OnError(req, code)
  \/ \E req \in LiveOf("open"), hangUp \in BOOLEAN : OnTimeout(req, hangUp)
  \/ \E h \in LiveOf("hangup") : OnSocketHangUp(h)
  \/ \E s \in LiveOf("sleep") : OnSleepDone(s)

Spec == Init /\ [][Next]_vars

\* ------------------------------------------- the insecure-TLS warning

\* The process makes MaxCalls customFetch calls, each of at most MaxHops
\* requests (the first one, retries and followed redirects).
MaxCalls == 2
MaxHops == 2

NoCall ==
  /\ live = EmptyBag /\ result = Pending
  /\ attempts = 0 /\ seen = NothingSeen
  /\ last = Event("none", NoRequest, NoResponse, "", NoRequest)
CallIdle == cfAccess = FALSE /\ NoCall

\* A call of the process: where it stands, whether its current URL is an
\* https: one, how many requests it has dispatched and whether one of them
\* went to an https: URL.
NewCall(isHttps) ==
  [at |-> "new", isHttps |-> isHttps, hops |-> 0, sentHttps |-> FALSE]

\* Faulty variant: the warning is written without the latch being set.
ShowInsecureTlsWarning_NoLatch(isHttps) ==
  IF isHttps /\ allowInsecureTls /\ ~hasShownInsecureTlsWarning
  THEN /\ warnings' = warnings + 1
       /\ UNCHANGED hasShownInsecureTlsWarning
  ELSE UNCHANGED <<hasShownInsecureTlsWarning, warnings>>

\* The head of the promise executor: test the latch, set it and warn.
ShowInsecureTlsWarning(isHttps) ==
  IF isHttps /\ allowInsecureTls /\ ~hasShownInsecureTlsWarning
  THEN /\ hasShownInsecureTlsWarning' = TRUE
       /\ warnings' = warnings + 1
  ELSE UNCHANGED <<hasShownInsecureTlsWarning, warnings>>

\* The promise executor of makeRequest runs for call c, to an https: or
\* http: URL: the latch, then protocol.request.  The executor is synchronous
\* code: nothing of another call runs between its test and its assignment.
Dispatch(c, isHttps) ==
  /\ calls[c].hops < MaxHops
  /\ ShowInsecureTlsWarning(isHttps)
  /\ calls' = [calls EXCEPT ![c] = [at |-> "open", isHttps |-> isHttps,
                                     hops |-> @.hops + 1,
                                     sentHttps |-> @.sentHttps \/ isHttps]]

LatchInit ==
  /\ allowInsecureTls \in BOOLEAN
  /\ hasShownInsecureTlsWarning = FALSE
  /\ warnings = 0
  /\ calls \in [1..MaxCalls -> {NewCall(h) : h \in BOOLEAN}]
  /\ CallIdle /\ HeaderIdle /\ BodyIdle /\ PolicyIdle /\ ConfigIdle

\* customFetch(url) of call c reaches its first request.
FirstRequest(c) ==
  /\ calls[c].at = "new"
  /\ Dispatch(c, calls[c].isHttps)
  /\ UNCHANGED <<allowInsecureTls, callVars, headerVars, bodyVars, policyVars, configVars>>

\* A retry-eligible error on the request of call c: the handler sleeps.
RequestFails(c) ==
  /\ calls[c].at = "open"
  /\ calls' = [calls EXCEPT
                ![c].at = IF calls[c].hops < MaxHops THEN "sleep" ELSE "done"]
  /\ UNCHANGED <<allowInsecureTls, hasShownInsecureTlsWarning, warnings,
                 callVars, headerVars, bodyVars, policyVars, configVars>>

\* The backoff of call c is over: the retry goes to the same URL.
RetryDispatched(c) ==
  /\ calls[c].at = "sleep"
  /\ Dispatch(c, calls[c].isHttps)
  /\ UNCHANGED <<allowInsecureTls, callVars, headerVars, bodyVars, policyVars, configVars>>

\* The request of call c is answered with a redirect that is followed, to
\* an https: or http: URL.
RedirectDispatched(c, isHttps) ==
  /\ calls[c].at = "open"
  /\ Dispatch(c, isHttps)
  /\ UNCHANGED <<allowInsecureTls, callVars, headerVars, bodyVars, policyVars, configVars>>

\* The request of call c ends the call: a response or a fatal error.
CallEnds(c) ==
  /\ calls[c].at = "open"
  /\ calls' = [calls EXCEPT ![c].at = "done"]
  /\ UNCHANGED <<allowInsecureTls, hasShownInsecureTlsWarning, warnings,
                 callVars, headerVars, bodyVars, policyVars, configVars>>

LatchNext ==
  \/ \E c \in 1..MaxCalls : FirstRequest(c)
  \/ \E c \in 1..MaxCalls : RequestFails(c)
  \/ \E c \in 1..MaxCalls : RetryDispatched(c)
  \/ \E c \in 1..MaxCalls, isHttps \in BOOLEAN : RedirectDispatched(c, isHttps)
  \/ \E c \in 1..MaxCalls : CallEnds(c)

LatchSpec == LatchInit /\ [][LatchNext]_vars

\* ------------------------------------------- the transmitted headers

\* A caller's headers object has at most MaxHeaders entries.
MaxHeaders == 3

\* The names a caller writes: a custom header and a vendor header in several
\* spellings, and the name of a default header.
HeaderPool ==
  {"X-Custom", "x-custom", "x-CUSTOM",
   "CF-Access-Client-Id", "cf-access-client-id", "Cf-Access-Client-ID",
   "Accept"}

\* The headers objects of that size: the names of an object are distinct, and
\* the value of each entry is the name as the caller wrote it.
HeaderObjects ==
  UNION {{[i \in 1..n |-> <<q[i], q[i]>>] :
            q \in {f \in [1..n -> HeaderPool] :
                     \A i, j \in 1..n : f[i] = f[j] => i = j}} :
         n \in 0..MaxHeaders}

NotBuilt == [built |-> FALSE, entries |-> << >>]

HeaderInit ==
  /\ cfAccess \in BOOLEAN
  /\ fetchOptions \in {NoHeaders} \cup {Headers(h) : h \in HeaderObjects}
  /\ headers = NotBuilt
  /\ NoCall /\ LatchIdle /\ BodyIdle /\ PolicyIdle /\ ConfigIdle

\* makeRequest from the merge of the options to the header object it hands
\* to protocol.request.
BuildHeaders ==
  /\ ~headers.built
  /\ headers' = [built |-> TRUE,
                  entries |-> SentHeaders([headers |-> fetchOptions], cfAccess)]
  /\ UNCHANGED <<fetchOptions, callVars, latchVars, bodyVars, policyVars, configVars>>

HeaderNext == BuildHeaders

HeaderSpec == HeaderInit /\ [][HeaderNext]_vars

\* ------------------------------------------------- the response body

\* A response body arrives in at most MaxChunks data events, and the caller
\* calls the accessors of the response at most MaxReads times.
MaxChunks == 3
MaxReads == 3

\* The bytes and characters of the model: "1", "[", "]", and a byte that is
\* not valid UTF-8, which decodes to the replacement character.
DecodeByte(byte) ==
  CASE byte = 49 -> "1"
    [] byte = 91 -> "["
    [] byte = 93 -> "]"
    [] OTHER -> "U+FFFD"
EncodeChar(char) ==
  CASE char = "1" -> 49
    [] char = "[" -> 91
    [] OTHER -> 93

\* A data event carries a Buffer or, with an encoding set, a string.
DataChunks ==
  {[isString |-> FALSE, data |-> <<b>>] : b \in {49, 91, 93, 255}}
  \cup {[isString |-> TRUE, data |-> <<c>>] : c \in {"1", "[", "]"}}

\* Buffer.from(chunk, "utf8") for a string, the chunk itself for a Buffer.
ChunkBytes(chunk) ==
  IF chunk.isString
  THEN [i \in 1..Len(chunk.data) |-> EncodeChar(chunk.data[i])]
  ELSE chunk.data

\* Buffer.concat(chunks): a new Buffer, a view of byteLength bytes at
\* byteOffset of its ArrayBuffer, which may be a shared pool.
RECURSIVE Flatten(_)
Flatten(list) ==
  IF list = << >> THEN << >> ELSE Head(list) \o Flatten(Tail(list))
BufferConcat(list, byteOffset) ==
  [captured |-> TRUE,
   buffer |-> [i \in 1..byteOffset |-> 0] \o Flatten(list) \o <<0>>,
   byteOffset |-> byteOffset,
   byteLength |-> Len(Flatten(list))]
NotCaptured ==
  [captured |-> FALSE, buffer |-> << >>, byteOffset |-> 0, byteLength |-> 0]
\* The bytes a Buffer shows.
BufferBytes(b) == SubSeq(b.buffer, b.byteOffset + 1, b.byteOffset + b.byteLength)

\* responseBody.toString("utf8")
ToUtf8String(bytes) == [i \in 1..Len(bytes) |-> DecodeByte(bytes[i])]

\* JSON.parse on the texts of the model: a number written with the digit 1,
\* or an array that is empty or holds one value.
RECURSIVE NumberOf(_)
NumberOf(digits) ==
  IF digits = << >> THEN 0
  ELSE 10 * NumberOf(SubSeq(digits, 1, Len(digits) - 1)) + 1
RECURSIVE JsonParse(_)
JsonParse(text) ==
  LET failed == [ok |-> FALSE, value |-> 0]
  IN  IF text = << >> THEN failed
      ELSE IF \A i \in 1..Len(text) : text[i] = "1"
      THEN [ok |-> TRUE, value |-> NumberOf(text)]
      ELSE IF Head(text) = "[" /\ text[Len(text)] = "]" /\ Len(text) >= 2
      THEN LET inner == SubSeq(text, 2, Len(text) - 1)
           IN  IF inner = << >> THEN [ok |-> TRUE, value |-> << >>]
               ELSE IF JsonParse(inner).ok
               THEN [ok |-> TRUE, value |-> <<JsonParse(inner).value>>]
               ELSE failed
      ELSE failed

\* What one accessor call gives back: a value, or for json() the error it
\* throws when the text does not parse.
Returned(accessor, value) == [accessor |-> accessor, threw |-> FALSE, value |-> value]
Threw(accessor) == [accessor |-> accessor, threw |-> TRUE, value |-> "Failed to parse JSON"]
Read(accessor, b) ==
  CASE accessor = "text" -> Returned("text", ToUtf8String(BufferBytes(b)))
    [] accessor = "json" ->
         IF JsonParse(ToUtf8String(BufferBytes(b))).ok
         THEN Returned("json", JsonParse(ToUtf8String(BufferBytes(b))).value)
         ELSE Threw("json")
    [] OTHER -> Returned("arrayBuffer",
                         SubSeq(b.buffer, b.byteOffset + 1,
                                b.byteOffset + b.byteLength))

BodyInit ==
  /\ chunks = << >>
  /\ responseBody = NotCaptured
  /\ accessed = << >>
  /\ CallIdle /\ LatchIdle /\ HeaderIdle /\ PolicyIdle /\ ConfigIdle

\* res.on("data")
BodyOnData(chunk) ==
  /\ ~responseBody.captured
  /\ Len(chunks) < MaxChunks
  /\ chunks' = Append(chunks, ChunkBytes(chunk))
  /\ UNCHANGED <<responseBody, accessed, callVars, latchVars, headerVars, policyVars, configVars>>

\* res.on("end") of a response that is not a followed redirect: the body is
\* captured and the call is resolved with the response object.
BodyOnEnd(byteOffset) ==
  /\ ~responseBody.captured
  /\ responseBody' = BufferConcat(chunks, byteOffset)
  /\ result' = Resolved(200, NoRequest)
  /\ UNCHANGED <<chunks, accessed, cfAccess, live, attempts, seen, last,
                 latchVars, headerVars, policyVars, configVars>>

\* Faulty variant: a read drains the body.
Access_Drains(accessor) ==
  /\ responseBody.captured
  /\ Len(accessed) < MaxReads
  /\ accessed' = Append(accessed, Read(accessor, responseBody))
  /\ responseBody' = [responseBody EXCEPT !.byteLength = 0]
  /\ UNCHANGED <<chunks, callVars, latchVars, headerVars, policyVars, configVars>>

\* The caller calls text(), json() or arrayBuffer() on the response.
Access(accessor) ==
  /\ responseBody.captured
  /\ Len(accessed) < MaxReads
  /\ accessed' = Append(accessed, Read(accessor, responseBody))
  /\ UNCHANGED <<chunks, responseBody, callVars, latchVars, headerVars, policyVars, configVars>>

BodyNext ==
  \/ \E chunk \in DataChunks : BodyOnData(chunk)
  \/ \E byteOffset \in 0..1 : BodyOnEnd(byteOffset)
  \/ \E accessor \in {"text", "json", "arrayBuffer"} : Access(accessor)

BodySpec == BodyInit /\ [][BodyNext]_vars

\* ------------------------------------------------ the request policy

\* A value of process.env: a string, or undefined for a variable not set.
Undefined == [set |-> FALSE, value |-> ""]
EnvStrings ==
  {"", " ", "0", "10", "11", "-1", "2.5", "abc", "1e3", "0x64", "100", "99",
   "10000", "10001", "1000", "999", "60000", "60001"}
EnvValues == {Undefined} \cup {[set |-> TRUE, value |-> v] : v \in EnvStrings}

\* A JavaScript number: NaN, or a value held in tenths.
NaN == [nan |-> TRUE, tenths |-> 0]
Num(n) == [nan |-> FALSE, tenths |-> 10 * n]

\* Number(value) on the strings of the model.
Number(value) ==
  CASE value = "" -> Num(0)
    [] value = " " -> Num(0)
    [] value = "0" -> Num(0)
    [] value = "10" -> Num(10)
    [] value = "11" -> Num(11)
    [] value = "-1" -> Num(0 - 1)
    [] value = "2.5" -> [nan |-> FALSE, tenths |-> 25]
    [] value = "1e3" -> Num(1000)
    [] value = "0x64" -> Num(100)
    [] value = "100" -> Num(100)
    [] value = "99" -> Num(99)
    [] value = "10000" -> Num(10000)
    [] value = "10001" -> Num(10001)
    [] value = "1000" -> Num(1000)
    [] value = "999" -> Num(999)
    [] value = "60000" -> Num(60000)
    [] value = "60001" -> Num(60001)
    [] OTHER -> NaN

\* The schema's verdict on one value: the parsed integer, or an issue.
Valid(n) == [ok |-> TRUE, value |-> n]
Invalid == [ok |-> FALSE, value |-> 0]

\* Faulty variant: the preprocessed number is not held against max.
envIntWithDefault_NoMax(defaultValue, min, max, value) ==
  LET n == IF ~value.set \/ value.value = ""
           THEN Num(defaultValue)
           ELSE Number(value.value)
  IN  IF ~n.nan /\ n.tenths % 10 = 0 /\ n.tenths >= 10 * min
      THEN Valid(n.tenths \div 10)
      ELSE Invalid

\* envIntWithDefault(defaultValue, min, max) parsing a value: the
\* preprocessing, then z.number().int().min(min).max(max).
envIntWithDefault(defaultValue, min, max, value) ==
  LET n == IF ~value.set \/ value.value = ""
           THEN Num(defaultValue)
           ELSE Number(value.value)
  IN  IF ~n.nan /\ n.tenths % 10 = 0
         /\ n.tenths >= 10 * min /\ n.tenths <= 10 * max
      THEN Valid(n.tenths \div 10)
      ELSE Invalid

\* requestPolicySchema: default, min and max of each field.
requestPolicySchema ==
  [maxRetries |-> [defaultValue |-> 3, min |-> 0, max |-> 10],
   retryDelay |-> [defaultValue |-> 500, min |-> 100, max |-> 10000],
   timeout |-> [defaultValue |-> 8000, min |-> 1000, max |-> 60000]]
PolicyFields == {"maxRetries", "retryDelay", "timeout"}

\* .min(min).max(max) of a field.
InRange(field, n) ==
  n >= requestPolicySchema[field].min /\ n <= requestPolicySchema[field].max

ParseField(field, value) ==
  envIntWithDefault(requestPolicySchema[field].defaultValue,
                    requestPolicySchema[field].min,
                    requestPolicySchema[field].max, value)

NotParsed == [state |-> "none", maxRetries |-> 0, retryDelay |-> 0, timeout |-> 0]
\* requestPolicySchema.parse(...) throws when a field has an issue: the
\* module does not load and nothing of it is ever called.
ParseThrew == [state |-> "threw", maxRetries |-> 0, retryDelay |-> 0, timeout |-> 0]
NoRetryOptions ==
  [resolved |-> FALSE, given |-> {}, maxRetries |-> 0, retryDelay |-> 0, timeout |-> 0]

PolicyInit ==
  /\ env \in [PolicyFields -> EnvValues]
  /\ requestPolicy = NotParsed
  /\ retryOptions = NoRetryOptions
  /\ CallIdle /\ LatchIdle /\ HeaderIdle /\ BodyIdle /\ ConfigIdle

\* The module is loaded: requestPolicy = requestPolicySchema.parse({...}).
ParsePolicy ==
  /\ requestPolicy.state = "none"
  /\ requestPolicy' =
       IF \A f \in PolicyFields : ParseField(f, env[f]).ok
       THEN [state |-> "parsed",
             maxRetries |-> ParseField("maxRetries", env["maxRetries"]).value,
             retryDelay |-> ParseField("retryDelay", env["retryDelay"]).value,
             timeout |-> ParseField("timeout", env["timeout"]).value]
       ELSE ParseThrew
  /\ UNCHANGED <<env, retryOptions, callVars, latchVars, headerVars, bodyVars, configVars>>

\* What a caller passes for a field of its own: any number.
CallerValue == 99999

\* makeRequest takes maxRetries, retryDelay and timeout from the options of
\* the caller, and from the policy for the fields the caller did not give.
ResolveRetryOptions(given) ==
  /\ requestPolicy.state = "parsed"
  /\ ~retryOptions.resolved
  /\ retryOptions' =
       [resolved |-> TRUE, given |-> given,
        maxRetries |-> IF "maxRetries" \in given THEN CallerValue
                       ELSE requestPolicy.maxRetries,
        retryDelay |-> IF "retryDelay" \in given THEN CallerValue
                       ELSE requestPolicy.retryDelay,
        timeout |-> IF "timeout" \in given THEN CallerValue
                    ELSE requestPolicy.timeout]
  /\ UNCHANGED <<env, requestPolicy, callVars, latchVars, headerVars, bodyVars, configVars>>

PolicyNext ==
  \/ ParsePolicy
  \/ \E given \in SUBSET PolicyFields : ResolveRetryOptions(given)

PolicySpec == PolicyInit /\ [][PolicyNext]_vars

\* ------------------------------------------------ the config generator

\* generateConfig is run for at most MaxPages configured pages.
MaxPages == 2

\* A string that may be undefined (or null): a StringOverride, a field of
\* the remote metadata, a source of an icon candidate.
None == [isDefined |-> FALSE, value |-> ""]
Some(value) == [isDefined |-> TRUE, value |-> value]

\* DEFAULT_SITE_META, the parsed defaults.
DEFAULT_SITE_META ==
  [title |-> "Kuma Mieru", description |-> "A status page",
   icon |-> "/icon.svg", iconCandidates |-> <<"/icon.svg">>]

\* String.prototype.trim on the strings of the model.
Trim(value) ==
  CASE value = " " -> ""
    [] value = " /env.svg " -> "/env.svg"
    [] OTHER -> value

\* buildIconCandidates: the trimmed, non-empty sources without repeats,
\* then the default icon unless it is among them.
RECURSIVE CandidatesFrom(_, _)
CandidatesFrom(sources, candidates) ==
  IF sources = << >> THEN candidates
  ELSE LET source == Head(sources)
           trimmed == Trim(source.value)
           seenIcons == {candidates[i] : i \in 1..Len(candidates)}
       IN  CandidatesFrom(Tail(sources),
             IF ~source.isDefined \/ trimmed = "" \/ trimmed \in seenIcons
             THEN candidates
             ELSE Append(candidates, trimmed))
buildIconCandidates(sources, defaultIcon) ==
  LET candidates == CandidatesFrom(sources, << >>)
  IN  IF defaultIcon \in {candidates[i] : i \in 1..Len(candidates)}
      THEN candidates
      ELSE Append(candidates, defaultIcon)

\* siteMetaSchema.parse: the outcome for a site metadata value.
siteMetaSchemaParse(meta) ==
  [ok |-> Len(meta.iconCandidates) >= 1, value |-> meta]

\* The remote metadata of a call without any.
NoRemoteMeta == [title |-> None, description |-> None, icon |-> None]

\* resolveSiteMeta({overrides, remoteMeta}): the outcome of its final parse.
resolveSiteMeta(given, remoteMeta) ==
  LET title == IF given.title.isDefined THEN given.title.value
               ELSE IF remoteMeta.title.isDefined THEN remoteMeta.title.value
               ELSE DEFAULT_SITE_META.title
      description ==
        IF given.description.isDefined THEN given.description.value
        ELSE IF remoteMeta.description.isDefined THEN remoteMeta.description.value
        ELSE DEFAULT_SITE_META.description
      iconCandidates ==
        buildIconCandidates(<<given.icon, remoteMeta.icon>>, DEFAULT_SITE_META.icon)
  IN  siteMetaSchemaParse([title |-> title, description |-> description,
                           icon |-> iconCandidates[1],
                           iconCandidates |-> iconCandidates])

hasAnyOverride(given) ==
  given.title.isDefined \/ given.description.isDefined \/ given.icon.isDefined

\* What the fetch of a page's status page does: it fails (a network error),
\* answers with a status that is not ok, answers with a page whose preload
\* data cannot be read, or answers with a page that carries metadata.
RemoteMetas ==
  {[title |-> t, description |-> None, icon |-> i] :
     t \in {None, Some("Remote")}, i \in {None, Some("/remote.svg")}}
FetchOutcomes ==
  {[kind |-> k, remoteMeta |-> NoRemoteMeta] :
     k \in {"network-error", "not-ok", "preload-error"}}
  \cup {[kind |-> "ok", remoteMeta |-> r] : r \in RemoteMetas}
FetchFailed(outcome) == outcome.kind # "ok"

\* What a call of an async function ends in.
ReturnedMeta(meta) == [threw |-> FALSE, siteMeta |-> meta]
ThrewError == [threw |-> TRUE, siteMeta |-> DEFAULT_SITE_META]

\* Faulty variant: a failed fetch gives the defaults, overrides or not.
fetchSiteMeta_DefaultsOnly(given, outcome) ==
  LET resolved == resolveSiteMeta(given, outcome.remoteMeta)
      fallback == siteMetaSchemaParse(DEFAULT_SITE_META)
  IN  IF ~FetchFailed(outcome) /\ resolved.ok
      THEN ReturnedMeta(resolved.value)
      ELSE IF fallback.ok THEN ReturnedMeta(fallback.value) ELSE ThrewError

\* fetchSiteMeta: the try block, and the catch block with its two fallbacks.
fetchSiteMeta(given, outcome) ==
  LET resolved == resolveSiteMeta(given, outcome.remoteMeta)
      fallback == IF hasAnyOverride(given)
                  THEN resolveSiteMeta(given, NoRemoteMeta)
                  ELSE siteMetaSchemaParse(DEFAULT_SITE_META)
  IN  IF ~FetchFailed(outcome) /\ resolved.ok
      THEN ReturnedMeta(resolved.value)
      ELSE IF fallback.ok THEN ReturnedMeta(fallback.value) ELSE ThrewError

PageIds == {"main", "api", "cdn"}
OverrideValues ==
  [title : {None, Some(""), Some("Env")},
   description : {None, Some("Env text")},
   icon : {None, Some(" "), Some(" /env.svg "), Some("/icon.svg")}]

ConfigInit ==
  /\ pageEndpoints \in
       UNION {{q \in [1..n -> PageIds] : \A i, j \in 1..n : q[i] = q[j] => i = j} :
              n \in 1..MaxPages}
  /\ overrides \in OverrideValues
  /\ pageConfigEntries = << >>
  /\ generated = "running"
  /\ CallIdle /\ LatchIdle /\ HeaderIdle /\ BodyIdle /\ PolicyIdle

\* One round of the page loop: fetchSiteMeta for the next page, and the
\* push of its entry, with the defaults when fetchSiteMeta threw.  fetched
\* and threw keep what the fetch did and whether fetchSiteMeta threw.
PageLoop(outcome) ==
  /\ generated = "running"
  /\ Len(pageConfigEntries) < Len(pageEndpoints)
  /\ LET page == pageEndpoints[Len(pageConfigEntries) + 1]
         ended == fetchSiteMeta(overrides, outcome)
     IN  pageConfigEntries' =
           Append(pageConfigEntries,
                  [id |-> page,
                   siteMeta |-> IF ended.threw
                                THEN siteMetaSchemaParse(DEFAULT_SITE_META).value
                                ELSE ended.siteMeta,
                   fetched |-> outcome.kind, threw |-> ended.threw])
  /\ UNCHANGED <<pageEndpoints, overrides, generated,
                 callVars, latchVars, headerVars, bodyVars, policyVars>>

\* After the loop: the metadata of the default page, pageIds[0], is looked
\* up among the entries and the config is written, or the process exits 1.
WriteConfig ==
  /\ generated = "running"
  /\ Len(pageConfigEntries) = Len(pageEndpoints)
  /\ generated' =
       IF \E i \in 1..Len(pageConfigEntries) :
            pageConfigEntries[i].id = pageEndpoints[1]
       THEN "written" ELSE "exit 1"
  /\ UNCHANGED <<pageEndpoints, overrides, pageConfigEntries,
                 callVars, latchVars, headerVars, bodyVars, policyVars>>

ConfigNext ==
  \/ \E outcome \in FetchOutcomes : PageLoop(outcome)
  \/ WriteConfig

ConfigSpec == ConfigInit /\ [][ConfigNext]_vars

\* ------------------------------------------------------------ claims

\* The policy of the call, the same in every request of its chain, and the
\* response of the latest event.
MaxRetries == last.req.options.maxRetries
MaxRedirects == last.req.options.maxRedirects
LastResponse ==
  [status |-> last.status, hasLocation |-> last.hasLocation,
   location |-> last.location]
\* The chain so far held transport errors only: no timeout, no redirect.
OnlyTransportErrors == ~seen.timedOut /\ last.req.redirectCount = 0

\* C1: when the first k <= maxRetries attempts fail with a retry-eligible
\* transport error, each failure is followed by one retry, and the response
\* of attempt k+1, if it is not a redirect, is the result of the call, after
\* exactly k+1 attempts.
C1_RetriesThenResponse ==
  OnlyTransportErrors =>
    /\ (last.kind = "error" /\ last.code \in RetryableCodes
          /\ last.req.retryCount < MaxRetries) =>
         /\ result.state = "pending"
         /\ Sleeper(last.req) \in LiveOf("sleep")
         /\ attempts = last.req.retryCount + 1
    /\ last.kind = "sleep" =>
         /\ result.state = "pending"
         /\ last.next \in LiveOf("open")
         /\ last.next.retryCount = last.req.retryCount + 1
         /\ attempts = last.next.retryCount + 1
    /\ (last.kind = "response" /\ last.status \notin RedirectStatuses) =>
         /\ result = Resolved(last.status, last.req)
         /\ attempts = last.req.retryCount + 1

C1_Witness ==
  /\ OnlyTransportErrors
  /\ last.kind = "response" /\ last.status = 200
  /\ last.req.retryCount = MaxRetriesBound /\ MaxRetries = MaxRetriesBound
  /\ result.state = "resolved" /\ result.ok
  /\ attempts = MaxRetriesBound + 1

\* C2: when every attempt fails with a retry-eligible transport error, the
\* call makes exactly maxRetries+1 attempts and is rejected with the error of
\* the last one, its code unchanged; it is never resolved.
C2_RetryBudgetExhausted ==
  (OnlyTransportErrors /\ last.kind = "error" /\ last.code \in RetryableCodes) =>
    /\ last.req.retryCount <= MaxRetries
    /\ attempts = last.req.retryCount + 1
    /\ result.state # "resolved"
    /\ last.req.retryCount < MaxRetries => result.state = "pending"
    /\ last.req.retryCount = MaxRetries =>
         /\ result = Rejected(last.code, last.req)
         /\ attempts = MaxRetries + 1

C2_Witness ==
  /\ OnlyTransportErrors
  /\ last.kind = "error" /\ last.code = "EHOSTUNREACH"
  /\ MaxRetries = MaxRetriesBound /\ attempts = MaxRetriesBound + 1
  /\ result.state = "rejected" /\ result.code = "EHOSTUNREACH"

\* C3: when every response is a 302 with a Location and followRedirects is
\* true, the call follows exactly maxRedirects redirects and is resolved with
\* the response after them: status 302, ok false.
C3_RedirectBudget ==
  (seen.only302 /\ last.kind = "response" /\ last.req.options.followRedirects) =>
    /\ last.req.redirectCount <= MaxRedirects
    /\ last.req.redirectCount < MaxRedirects =>
         /\ result.state = "pending"
         /\ last.next \in LiveOf("open")
         /\ last.next.redirectCount = last.req.redirectCount + 1
         /\ attempts = last.req.redirectCount + 2
    /\ last.req.redirectCount = MaxRedirects =>
         /\ result = Resolved(302, last.req)
         /\ result.status = 302 /\ ~result.ok
         /\ attempts = MaxRedirects + 1

C3_Witness ==
  /\ seen.only302 /\ last.kind = "response"
  /\ last.req.options.followRedirects
  /\ MaxRedirects = MaxRedirectsBound
  /\ last.req.redirectCount = MaxRedirectsBound
  /\ result.state = "resolved" /\ result.status = 302 /\ ~result.ok

\* C4 as stated: a response starts a new attempt exactly when its status is a
\* redirect status, followRedirects is true, a Location header is present and
\* redirectCount < maxRedirects; otherwise it is the result of the call.
C4_RedirectTrigger ==
  last.kind = "response" =>
    LET four == /\ last.status \in {301, 302, 303, 307, 308}
                /\ last.req.options.followRedirects
                /\ last.hasLocation
                /\ last.req.redirectCount < MaxRedirects
    IN  /\ (last.next # NoRequest) <=> four
        /\ ~four => result = Resolved(last.status, last.req)

\* C4, amended: the Location must be non-empty and name a valid URL for the
\* redirect to be followed; with a Location that does not parse the call is
\* rejected with the URL error; in every other case the response is the
\* result.  No attempt is started unless the redirect is followed.
C4_RedirectTriggerAmended ==
  last.kind = "response" =>
    LET four == /\ last.status \in {301, 302, 303, 307, 308}
                /\ last.req.options.followRedirects
                /\ last.hasLocation /\ last.location # ""
                /\ last.req.redirectCount < MaxRedirects
    IN  /\ (last.next # NoRequest) <=> (four /\ IsValidUrl(last.location))
        /\ last.next # NoRequest =>
             /\ last.next \in LiveOf("open")
             /\ result.state = "pending"
        /\ (four /\ ~IsValidUrl(last.location)) =>
             result = Rejected("ERR_INVALID_URL", last.req)
        /\ ~four => result = Resolved(last.status, last.req)

C4_Witness ==
  /\ last.kind = "response" /\ last.status = 307
  /\ last.next # NoRequest /\ last.next \in LiveOf("open")
  /\ last.req.redirectCount = MaxRedirects - 1

\* C5: a followed 301, 302, 307 or 308 hands on the method, the body and the
\* caller's headers unchanged; a followed 303 is continued with GET, without
\* a body and without Content-Type or Content-Length in any letter case.
ContentHeaders == {"content-type", "content-length"}

C5_RedirectedRequest ==
  (last.kind = "response" /\ last.next # NoRequest) =>
    IF last.status = 303
    THEN /\ SentMethod(last.next.options) = "GET"
         /\ SentBody(last.next.options) = ""
         /\ \A name \in HeaderNames(SentHeaders(last.next.options, cfAccess)) :
              LowerCase(name) \notin ContentHeaders
         /\ \A name \in HeaderNames(last.next.options.headers.entries) :
              LowerCase(name) \notin ContentHeaders
    ELSE /\ last.next.options.method = last.req.options.method
         /\ last.next.options.body = last.req.options.body
         /\ last.next.options.headers = last.req.options.headers
         /\ SentMethod(last.next.options) = SentMethod(last.req.options)
         /\ SentBody(last.next.options) = SentBody(last.req.options)
         /\ SentHeaders(last.next.options, cfAccess)
              = SentHeaders(last.req.options, cfAccess)

C5_Witness ==
  /\ last.kind = "response" /\ last.status = 303 /\ last.next # NoRequest
  /\ SentMethod(last.req.options) = "POST"
  /\ "content-type" \in HeaderNames(SentHeaders(last.req.options, cfAccess))
  /\ SentMethod(last.next.options) = "GET"

\* C6: following a 303 removes only Content-Type and Content-Length: every
\* other header sent with the redirected attempt is sent unchanged with the
\* next one.
C6_OtherHeadersKept ==
  (last.kind = "response" /\ last.status = 303 /\ last.next # NoRequest) =>
    LET before == SentHeaders(last.req.options, cfAccess)
        after == SentHeaders(last.next.options, cfAccess)
    IN  \A name \in HeaderNames(before) :
          LowerCase(name) \notin ContentHeaders =>
            /\ name \in HeaderNames(after)
            /\ HeaderValue(after, name) = HeaderValue(before, name)

\* C7: a response never starts a retry: it leaves the sleeping handlers and
\* retryCount alone, and unless it meets the redirect trigger it is the result
\* of the call; a handler goes to sleep only on an error event, and only the
\* end of a sleep dispatches a request with a higher retryCount.
C7_NoRetryOnResponse ==
  [][ /\ last'.kind = "response" =>
           /\ SleepBag' = SleepBag
           /\ last'.next # NoRequest =>
                last'.next.retryCount = last'.req.retryCount
           /\ ~FollowsRedirect(last'.req, LastResponse') =>
                /\ result' = Resolved(last'.status, last'.req)
                /\ result'.by.retryCount = last'.req.retryCount
                /\ attempts' = attempts
      /\ BagCardinality(SleepBag') > BagCardinality(SleepBag) =>
           last'.kind \in {"error", "timeout", "hangup"}
      /\ (last'.next # NoRequest
            /\ last'.next.retryCount # last'.req.retryCount) =>
           last'.kind = "sleep" ]_vars

C7_Witness ==
  /\ last.kind = "response" /\ last.status = 404
  /\ last.req.retryCount < MaxRetries
  /\ result = Resolved(404, last.req) /\ ~result.ok
  /\ LiveOf("sleep") = {}

\* C8: a transport error with any other code rejects the call at once with
\* that error, whatever the retry budget: no sleep, no further request.
C8_IneligibleErrorFails ==
  [][ (last'.kind = "error" /\ last'.code \notin RetryableCodes) =>
        /\ result' = Rejected(last'.code, last'.req)
        /\ live' = Remove(live, last'.req)
        /\ attempts' = attempts ]_vars

C8_Witness ==
  /\ last.kind = "error" /\ last.code = "ENOTFOUND"
  /\ last.req.retryCount = 0 /\ MaxRetries = MaxRetriesBound
  /\ result = Rejected("ENOTFOUND", last.req)
  /\ live = EmptyBag

\* C9: the backoff after a failed attempt with retryCount k is
\* retryDelay * (k + 1), also after redirects, and the retry that follows it
\* has retryCount k + 1.
C9_LinearBackoff ==
  /\ \A s \in LiveOf("sleep") : s.ms = s.options.retryDelay * (s.retryCount + 1)
  /\ last.kind = "sleep" =>
       /\ last.req.ms = last.req.options.retryDelay * (last.req.retryCount + 1)
       /\ last.next.retryCount = last.req.retryCount + 1

C9_Witness ==
  /\ last.kind = "sleep"
  /\ last.req.redirectCount > 0 /\ last.req.retryCount = 1
  /\ last.req.options.retryDelay = 500 /\ last.req.ms = 1000
  /\ last.next \in LiveOf("open")

\* C10: the attempts of a call are strictly sequential: at most one request
\* is in flight at any time, so a failed attempt, a timed-out one included,
\* has at most one successor.
C10_SequentialAttempts ==
  InFlight <= 1

\* C11: with the insecure-TLS override active the warning is written at most
\* once in the life of the process, whatever the calls, their retries and
\* their redirects do and in whatever order, and it has been written as soon
\* as one request to an https: URL has been dispatched.
C11_WarnsExactlyOnce ==
  allowInsecureTls =>
    /\ warnings <= 1
    /\ (\E c \in 1..MaxCalls : calls[c].sentHttps) => warnings = 1
    /\ (\A c \in 1..MaxCalls : ~calls[c].sentHttps) => warnings = 0

C11_Witness ==
  /\ allowInsecureTls /\ warnings = 1
  /\ \A c \in 1..MaxCalls :
       calls[c].at = "open" /\ calls[c].isHttps /\ calls[c].sentHttps
  /\ \E c \in 1..MaxCalls : calls[c].hops = MaxHops

\* C12: a timeout ends only the request it came to and reaches the error
\* handler as an ETIMEDOUT error, handled as any transport ETIMEDOUT: with
\* retryCount < maxRetries the handler goes to its backoff sleep and the call
\* stays pending, otherwise the call is rejected with the ETIMEDOUT error; a
\* pending call always has a request, a backoff or a closing socket left to
\* carry it on.
C12_TimeoutIsTransportError ==
  /\ [](Running => live # EmptyBag)
  /\ [][ last'.kind = "timeout" =>
           /\ last'.code = "ETIMEDOUT"
           /\ last'.req \in LiveOf("open")
           /\ OpenBag' = Remove(OpenBag, last'.req)
           /\ attempts' = attempts
           /\ IF last'.req.retryCount < last'.req.options.maxRetries
              THEN /\ result'.state = "pending"
                   /\ SleepBag' = Add(SleepBag, Sleeper(last'.req))
              ELSE /\ result' = Rejected("ETIMEDOUT", last'.req)
                   /\ SleepBag' = SleepBag ]_vars

C12_Witness ==
  /\ last.kind = "timeout" /\ seen.hangUps = 0
  /\ last.req.retryCount = 0 /\ last.req.redirectCount = 1
  /\ MaxRetries = 1
  /\ result.state = "pending"
  /\ Sleeper(last.req) \in LiveOf("sleep")

\* C13: a followed redirect dispatches a request with redirectCount one
\* higher and the same retryCount; a retry dispatches a request with
\* retryCount one higher and the same redirectCount, to the URL of the failed
\* request, with its method, its body and its caller headers.
C13_CountersOfSuccessor ==
  /\ (last.kind = "response" /\ last.next # NoRequest) =>
       /\ last.next \in LiveOf("open")
       /\ last.next.redirectCount = last.req.redirectCount + 1
       /\ last.next.retryCount = last.req.retryCount
  /\ last.kind = "sleep" =>
       /\ last.next \in LiveOf("open")
       /\ last.next.retryCount = last.req.retryCount + 1
       /\ last.next.redirectCount = last.req.redirectCount
       /\ last.next.url = last.req.url
       /\ last.next.options = last.req.options
       /\ SentMethod(last.next.options) = SentMethod(last.req.options)
       /\ SentBody(last.next.options) = SentBody(last.req.options)
       /\ SentHeaders(last.next.options, cfAccess)
            = SentHeaders(last.req.options, cfAccess)

C13_Witness ==
  /\ last.kind = "sleep"
  /\ last.req.redirectCount = MaxRedirectsBound /\ last.req.url = "http://b/"
  /\ last.req.retryCount = 1
  /\ last.next.retryCount = 2 /\ last.next.redirectCount = MaxRedirectsBound
  /\ last.next.url = "http://b/"
  /\ last.next.options.method = "POST"

\* C14: the response a call is resolved with has ok true exactly when its
\* status is from 200 to 299; a redirect status returned because the budget is
\* used up, the Location is missing or followRedirects is false has ok false,
\* and so has a response without a status code (status 0).
C14_OkIffSuccessStatus ==
  result.state = "resolved" =>
    /\ last.kind = "response" /\ result.status = last.status
    /\ result.ok <=> (200 <= result.status /\ result.status < 300)
    /\ result.status \in {301, 302, 303, 307, 308} => ~result.ok
    /\ result.status = 0 => ~result.ok

C14_Witness ==
  /\ result.state = "resolved" /\ result.status = 301 /\ ~result.ok
  /\ last.kind = "response" /\ last.hasLocation
  /\ ~last.req.options.followRedirects

\* C15: of the headers that go into a request, one whose name starts with
\* cf-access- in any letter case is transmitted under the name as written,
\* with its value, and every other one under its lower-cased name; so no two
\* transmitted names outside the vendor prefix are equal up to letter case.
C15_HeaderNameCase ==
  headers.built =>
    LET supplied == MergedHeaders([headers |-> fetchOptions], cfAccess)
        sent == headers.entries
    IN  /\ \A name \in HeaderNames(supplied) :
             IF IsVendorHeader(name)
             THEN /\ name \in HeaderNames(sent)
                  /\ HeaderValue(sent, name) = HeaderValue(supplied, name)
             ELSE LowerCase(name) \in HeaderNames(sent)
        /\ \A name \in HeaderNames(sent) :
             /\ IsVendorHeader(name) => name \in HeaderNames(supplied)
             /\ ~IsVendorHeader(name) =>
                  /\ name = LowerCase(name)
                  /\ \E given \in HeaderNames(supplied) :
                       ~IsVendorHeader(given) /\ LowerCase(given) = name
        /\ \A a, b \in HeaderNames(sent) :
             (~IsVendorHeader(a) /\ ~IsVendorHeader(b)
                /\ LowerCase(a) = LowerCase(b)) => a = b

C15_Witness ==
  /\ headers.built
  /\ HeaderNames(fetchOptions.entries)
       = {"Cf-Access-Client-ID", "X-Custom", "x-CUSTOM"}
  /\ HeaderNames(headers.entries) = {"Cf-Access-Client-ID", "x-custom"}

\* C16: the merged headers hold every default header whose name the caller
\* did not supply, with its default value, and a header of the caller takes
\* the place of the default of the same name only.
C16_DefaultsKept ==
  headers.built =>
    \A name \in HeaderNames(DefaultHeaders(cfAccess)) :
      (fetchOptions.present =>
         \A given \in HeaderNames(fetchOptions.entries) :
           LowerCase(given) # LowerCase(name)) =>
        LET merged == MergedHeaders([headers |-> fetchOptions], cfAccess)
            sentName == IF IsVendorHeader(name) THEN name ELSE LowerCase(name)
        IN  /\ name \in HeaderNames(merged)
            /\ HeaderValue(merged, name) = HeaderValue(DefaultHeaders(cfAccess), name)
            /\ sentName \in HeaderNames(headers.entries)
            /\ HeaderValue(headers.entries, sentName)
                 = HeaderValue(DefaultHeaders(cfAccess), name)

\* C17: the accessors leave the response as it is: whatever calls came
\* before, text() gives the decoded bytes of the whole body, arrayBuffer()
\* the bytes, json() the parsed text or, when the text is not JSON, an error;
\* nothing but json() throws, and a body that is not JSON leaves the call
\* resolved.
C17_AccessorsRepeatable ==
  responseBody.captured =>
    LET bytes == Flatten(chunks)
        text == ToUtf8String(bytes)
    IN  /\ result.state = "resolved"
        /\ BufferBytes(responseBody) = bytes
        /\ \A i \in 1..Len(accessed) :
             CASE accessed[i].accessor = "text" ->
                    accessed[i] = Returned("text", text)
               [] accessed[i].accessor = "arrayBuffer" ->
                    accessed[i] = Returned("arrayBuffer", bytes)
               [] OTHER ->
                    /\ accessed[i].threw <=> ~JsonParse(text).ok
                    /\ JsonParse(text).ok =>
                         accessed[i].value = JsonParse(text).value

C17_Witness ==
  /\ responseBody.captured /\ result.state = "resolved"
  /\ responseBody.byteOffset = 1
  /\ Flatten(chunks) = <<91, 49>>
  /\ Len(accessed) = 3
  /\ accessed[1].accessor = "json" /\ accessed[1].threw
  /\ accessed[2].accessor = "text" /\ accessed[2].value = <<"[", "1">>
  /\ accessed[3].accessor = "arrayBuffer" /\ accessed[3].value = <<91, 49>>

C19_MalformedUrlFailsFirst ==
  /\ (last.kind = "call" /\ last.req.url = "http://[") =>
       /\ result = Rejected("ERR_INVALID_URL", last.req)
       /\ attempts = 0
       /\ live = EmptyBag
  /\ attempts = 0 => last.kind = "call" /\ result.state = "rejected"
  /\ \A e \in BagToSet(live) : e.url # "http://["

C19_Witness ==
  /\ last.kind = "call" /\ last.req.url = "http://["
  /\ MaxRetries = MaxRetriesBound
  /\ result.state = "rejected" /\ result.code = "ERR_INVALID_URL"
  /\ attempts = 0 /\ live = EmptyBag

\* C20: the policy parsed from the environment has maxRetries from 0 to 10,
\* retryDelay from 100 to 10000 and timeout from 1000 to 60000; a variable
\* that is not set or is the empty string gives the default 3, 500 or 8000;
\* and a request takes, for each field its caller did not give, a value in
\* that range, or is never made because the policy did not parse.
C20_PolicyInRange ==
  /\ requestPolicy.state = "parsed" =>
       /\ requestPolicy.maxRetries \in 0..10
       /\ requestPolicy.retryDelay \in 100..10000
       /\ requestPolicy.timeout \in 1000..60000
       /\ (~env["maxRetries"].set \/ env["maxRetries"].value = "") =>
            requestPolicy.maxRetries = 3
       /\ (~env["retryDelay"].set \/ env["retryDelay"].value = "") =>
            requestPolicy.retryDelay = 500
       /\ (~env["timeout"].set \/ env["timeout"].value = "") =>
            requestPolicy.timeout = 8000
  /\ (\A f \in PolicyFields : ~env[f].set \/ env[f].value = "") =>
       requestPolicy.state # "threw"
  /\ retryOptions.resolved =>
       /\ requestPolicy.state = "parsed"
       /\ "maxRetries" \notin retryOptions.given =>
            InRange("maxRetries", retryOptions.maxRetries)
       /\ "retryDelay" \notin retryOptions.given =>
            InRange("retryDelay", retryOptions.retryDelay)
       /\ "timeout" \notin retryOptions.given =>
            InRange("timeout", retryOptions.timeout)

C20_Witness ==
  /\ retryOptions.resolved /\ retryOptions.given = {}
  /\ ~env["maxRetries"].set /\ retryOptions.maxRetries = 3
  /\ env["retryDelay"].value = "0x64" /\ retryOptions.retryDelay = 100
  /\ env["timeout"].set /\ env["timeout"].value = ""
  /\ retryOptions.timeout = 8000

C22_AttemptsBounded ==
  /\ attempts <= 1 + MaxRetries + MaxRedirects
  /\ Running => live # EmptyBag
  /\ ~Running => result.state \in {"resolved", "rejected"}

\* C23: every request of a call has retryCount from 0 to maxRetries and
\* redirectCount from 0 to maxRedirects; the first request has both at 0, a
\* successor has neither counter lower than the request it follows, and
\* maxRetries and maxRedirects are the same in all requests of the call.
C23_CountersInBudget ==
  /\ \A e \in BagToSet(live) :
       /\ e.retryCount \in 0..e.options.maxRetries
       /\ e.redirectCount \in 0..e.options.maxRedirects
       /\ e.options.maxRetries = MaxRetries
       /\ e.options.maxRedirects = MaxRedirects
  /\ last.kind = "call" =>
       last.req.retryCount = 0 /\ last.req.redirectCount = 0
  /\ last.next # NoRequest =>
       /\ last.next.retryCount >= last.req.retryCount
       /\ last.next.redirectCount >= last.req.redirectCount
       /\ last.next.retryCount \in 0..MaxRetries
       /\ last.next.redirectCount \in 0..MaxRedirects
       /\ last.next.options.maxRetries = MaxRetries
       /\ last.next.options.maxRedirects = MaxRedirects

C23_Witness ==
  /\ last.kind = "response" /\ last.status = 303 /\ last.next # NoRequest
  /\ last.req.retryCount = MaxRetriesBound /\ MaxRetries = MaxRetriesBound
  /\ last.next.retryCount = MaxRetriesBound
  /\ last.next.redirectCount = MaxRedirectsBound
  /\ MaxRedirects = MaxRedirectsBound
  /\ last.next \in LiveOf("open")

\* C24: once a 303 redirect of a call has been followed, every request the
\* call dispatches from then on is a GET without a body and without
\* Content-Type and Content-Length.
C24_DowngradeIsPermanent ==
  (seen.followed303 /\ last.next # NoRequest) =>
    /\ SentMethod(last.next.options) = "GET"
    /\ SentBody(last.next.options) = ""
    /\ \A name \in HeaderNames(SentHeaders(last.next.options, cfAccess)) :
         LowerCase(name) \notin ContentHeaders

====
